---- MODULE Spec2Model ----
(***************************************************************************)
(* A model of duden/main.py: the DudenWord extractors over a parsed        *)
(* document (soup), the section locator, the grammar table parser and the  *)
(* tag query.                                                              *)
(*                                                                         *)
(* Texts are strings.  Python's None is the string None below, which is    *)
(* no text of the model.  A python list that may be None and is only ever  *)
(* tested for truthiness (top_header) is the empty sequence when None.     *)
(***************************************************************************)
EXTENDS Integers, Sequences, FiniteSets, TLC

\* soup: self.soup, the parsed document; input: the document as load_soup
\* received it; table_node: the argument of _table_node_to_tagged_cells;
\* op, args, result: the last call, its arguments and what it left
VARIABLES soup, input, table_node, op, args, result

vars == <<soup, input, table_node, op, args, result>>

(***************************************************************************)
(* Bounds of the model                                                     *)
(***************************************************************************)
MaxRows == 3
MaxCols == 2
MaxTenseRows == 4
MaxNodes == 3
MaxSpans == 2
MaxBars == 6
MaxTables == 2
MaxFigures == 2

(***************************************************************************)
(* Constants of main.py                                                    *)
(***************************************************************************)
None == "<None>"

PRASENS == "Präsens"
PRATERITUM == "Präteritum"
PERSON_1 == "Person I"
PERSON_2 == "Person II"
PERSON_3 == "Person III"

\* what a call leaves: a value, None, or an exception that leaves the method
Value(v) == [status |-> "value", val |-> v]
Absent == [status |-> "None"]
Raised(e) == [status |-> "raised", exc |-> e]
NotCalled == [status |-> "not called"]

Range(s) == {s[i] : i \in 1..Len(s)}

Min(a, b) == IF a < b THEN a ELSE b

(***************************************************************************)
(* common.clear_text: the text without soft hyphens and without the        *)
(* whitespace around it, over the raw texts of the model ("-" stands for   *)
(* the soft hyphen).                                                       *)
(***************************************************************************)
clear_text(text) ==
    CASE text = " " -> ""
      [] text = " Genitiv " -> "Genitiv"
      [] text = "Sin-gular" -> "Singular"
      [] OTHER -> text

(***************************************************************************)
(* _table_node_to_tagged_cells                                             *)
(*                                                                         *)
(* A table node is [has_thead, thead, has_tbody, rows, has_wrap, h3]:      *)
(* thead the texts of the th cells of its thead; rows the tr of its tbody, *)
(* each [th, tds] with th the text of the row's first th or None; has_wrap *)
(* whether a div of class wrap-table encloses it, h3 the text of that      *)
(* div's first h3 or None.                                                 *)
(***************************************************************************)

\* lines 397-399 (None is the empty sequence)
TopHeaderOf(t) ==
    IF t.has_thead
    THEN [k \in 1..Len(t.thead) |-> clear_text(t.thead[k])]
    ELSE <<>>

\* lines 401-405
LeftHeaderOf(t) ==
    [i \in 1..Len(t.rows) |->
        IF t.rows[i].th /= None THEN clear_text(t.rows[i].th) ELSE None]

\* lines 407-408
TableContentOf(t) ==
    [i \in 1..Len(t.rows) |->
        [k \in 1..Len(t.rows[i].tds) |-> clear_text(t.rows[i].tds[k])]]

\* line 410: both lists are truthy
Named(top_header, left_header) ==
    top_header /= <<>> /\ left_header /= <<>>

\* lines 412-413
TableNameOf(t, top_header) ==
    IF t.h3 /= None THEN t.h3 ELSE top_header[1]

\* line 414
DropFirst(top_header) == Tail(top_header)

\* lines 417-422: the scan, with last_nonempty_cell carried along
RECURSIVE SanitizeFrom(_, _)
SanitizeFrom(left_header, last_nonempty_cell) ==
    IF left_header = <<>> THEN <<>>
    ELSE LET cell == Head(left_header) IN
         IF cell = "" \/ cell = None
         THEN <<last_nonempty_cell>>
                  \o SanitizeFrom(Tail(left_header), last_nonempty_cell)
         ELSE <<cell>> \o SanitizeFrom(Tail(left_header), cell)

Sanitize(left_header) == SanitizeFrom(left_header, "")

\* lines 425-428
LeftTags(left_header, table_content) ==
    IF left_header /= <<>>
    THEN [i \in 1..Len(left_header) |-> {left_header[i]}]
    ELSE [i \in 1..Len(table_content) |-> {}]

\* lines 429-432, where table_content is not empty
TopTags(top_header, table_content) ==
    IF top_header /= <<>>
    THEN [k \in 1..Len(top_header) |-> {top_header[k]}]
    ELSE [k \in 1..Len(table_content[1]) |-> {}]

\* line 433
TableTag(table_name) == IF table_name /= "" THEN {table_name} ELSE {}

\* lines 435-438
PersonTags(table_name) ==
    IF table_name \in {PRASENS, PRATERITUM}
    THEN <<{PERSON_1}, {PERSON_2}, {PERSON_3}>>
    ELSE <<{}, {}, {}>>

\* cycle(person_tags) at the i-th row, i from 1
CycleNoWrap(person_tags, i) ==
    IF i <= Len(person_tags) THEN person_tags[i] ELSE {}

Cycle(person_tags, i) == person_tags[((i - 1) % Len(person_tags)) + 1]

\* lines 444-449 without the union with col_tag
RowCellsNoColumnTag(row, top_tags, table_tag, row_tag, person_tag) ==
    [k \in 1..Min(Len(row), Len(top_tags)) |->
        [tags |-> table_tag \cup row_tag \cup person_tag,
         string |-> row[k]]]

\* lines 444-449: one row, zipped with the column tags
RowCells(row, top_tags, table_tag, row_tag, person_tag) ==
    [k \in 1..Min(Len(row), Len(top_tags)) |->
        [tags |-> table_tag \cup row_tag \cup top_tags[k] \cup person_tag,
         string |-> row[k]]]

\* lines 441-450: the rows zipped with the row tags and the cycle
RECURSIVE TaggedFrom(_, _, _, _, _, _)
TaggedFrom(i, table_content, left_tags, top_tags, table_tag, person_tags) ==
    IF i > Min(Len(table_content), Len(left_tags)) THEN <<>>
    ELSE RowCells(table_content[i], top_tags, table_tag, left_tags[i],
                  Cycle(person_tags, i))
         \o TaggedFrom(i + 1, table_content, left_tags, top_tags, table_tag,
                       person_tags)

\* lines 390-450.  The value keeps the locals the method ends with.
_table_node_to_tagged_cells(t) ==
    IF ~t.has_tbody THEN Raised("AttributeError")      \* line 401
    ELSE
    LET top_header0 == TopHeaderOf(t)
        left_header0 == LeftHeaderOf(t)
        table_content == TableContentOf(t)
        named == Named(top_header0, left_header0)
    IN
    IF named /\ ~t.has_wrap THEN Raised("AttributeError")   \* line 412
    ELSE
    LET table_name == IF named THEN TableNameOf(t, top_header0) ELSE ""
        top_header == IF named THEN DropFirst(top_header0) ELSE top_header0
        left_header == Sanitize(left_header0)
    IN
    IF top_header = <<>> /\ table_content = <<>>
    THEN Raised("IndexError")                               \* line 432
    ELSE
    LET left_tags == LeftTags(left_header, table_content)
        top_tags == TopTags(top_header, table_content)
        table_tag == TableTag(table_name)
        person_tags == PersonTags(table_name)
    IN Value([named |-> named,
              table_name |-> table_name,
              top_header |-> top_header,
              left_header |-> left_header,
              left_tags |-> left_tags,
              top_tags |-> top_tags,
              tagged_strings |->
                  TaggedFrom(1, table_content, left_tags, top_tags,
                             table_tag, person_tags)])

(***************************************************************************)
(* The document.  soup.nodes are its div and section elements in document  *)
(* order: tag, id (None without one), depth (0 at top level, 1 when nested *)
(* in the nearest depth-0 node before it or, without one, in an element    *)
(* that is neither div nor section), h2 (the text of an h2 of its own,     *)
(* which comes before its nested elements, or None) and the content the    *)
(* extractors read: header (whether a header element is below it),         *)
(* has_section and h3 (whether a section is nested in it, and the text of  *)
(* that section's h3, or None), figures (the figure elements below it,     *)
(* each the sequence of its anchors [group, text]), tables (the table      *)
(* nodes below it), dd (the text of its dl's dd, or None) and text.  A     *)
(* nested section without id and h2 can never be returned by _find_section *)
(* and is kept with its parent.                                            *)
(***************************************************************************)
EmptyNode == [tag |-> "div", id |-> None, depth |-> 0, h2 |-> None,
              header |-> FALSE, has_section |-> FALSE, h3 |-> None,
              figures |-> <<>>, tables |-> <<>>, dd |-> None, text |-> ""]

\* str.lower over the names of the model
Lower(name) ==
    CASE name = "Grammatik" -> "grammatik"
      [] name = "Flexion" -> "flexion"
      [] name = "Bedeutungen" -> "bedeutungen"
      [] name = "Synonyme" -> "synonyme"
      [] name = "Herkunft" -> "herkunft"
      [] name = "Rechtschreibung" -> "rechtschreibung"
      [] OTHER -> name

\* `name in text` over the texts of the model
Contains(name, text) ==
    \/ name = text
    \/ name = ""
    \/ <<name, text>> \in {<<"Grammatik", "Grammatik und Flexion">>,
                           <<"Flexion", "Grammatik und Flexion">>,
                           <<"Gebrauch:", "Gebrauch: ">>}

\* element.h2: the first h2 below the element, its own or a nested
\* element's
RECURSIVE FirstH2From(_, _, _)
FirstH2From(nodes, j, depth) ==
    IF j > Len(nodes) \/ nodes[j].depth <= depth THEN None
    ELSE IF nodes[j].h2 /= None THEN nodes[j].h2
    ELSE FirstH2From(nodes, j + 1, depth)

H2Of(nodes, i) ==
    IF nodes[i].h2 /= None THEN nodes[i].h2
    ELSE FirstH2From(nodes, i + 1, nodes[i].depth)

\* line 219: soup.find('div', id=...), the index of the node or 0
RECURSIVE FindDivAnyTag(_, _, _)
FindDivAnyTag(nodes, id, i) ==
    IF i > Len(nodes) THEN 0
    ELSE IF nodes[i].id = id THEN i
    ELSE FindDivAnyTag(nodes, id, i + 1)

RECURSIVE FindDiv(_, _, _)
FindDiv(nodes, id, i) ==
    IF i > Len(nodes) THEN 0
    ELSE IF nodes[i].tag = "div" /\ nodes[i].id = id THEN i
    ELSE FindDiv(nodes, id, i + 1)

\* lines 225-228
Matches(name, approximate, text) ==
    \/ name = text
    \/ approximate /\ Contains(name, text)

\* lines 223-230: the loop over soup.find_all('section'), from node i
RECURSIVE ScanSections(_, _, _, _)
ScanSections(nodes, name, approximate, i) ==
    IF i > Len(nodes) THEN 0
    ELSE IF /\ nodes[i].tag = "section"
            /\ H2Of(nodes, i) /= None
            /\ Matches(name, approximate, H2Of(nodes, i))
         THEN i
    ELSE ScanSections(nodes, name, approximate, i + 1)

\* lines 208-230: the index in soup.nodes of the node returned, 0 for None
_find_section(s, name, approximate) ==
    LET div == FindDiv(s.nodes, Lower(name), 1) IN
    IF div /= 0 THEN div
    ELSE ScanSections(s.nodes, name, approximate, 1)

(***************************************************************************)
(* The field extractors.  Each gives [soup, result]: the document the call *)
(* leaves and what it returns or raises.                                   *)
(***************************************************************************)
Returns(s, r) == [soup |-> s, result |-> r]

\* lines 168-176
part_of_speech(s) ==
    IF ~s.main.article \/ ~s.main.wortart_link \/ s.main.wortart_dd = None
    THEN Returns(s, Absent)                      \* AttributeError, caught
    ELSE Returns(s, Value(s.main.wortart_dd))

\* line 192: the first span of class shaft__full, 0 for None
RECURSIVE FirstFull(_, _)
FirstFull(spans, i) ==
    IF i > Len(spans) THEN 0
    ELSE IF spans[i].class = "shaft__full" THEN i
    ELSE FirstFull(spans, i + 1)

\* line 193
BarsCountSpans(spans, bars) ==
    Cardinality({i \in 1..Len(spans) : spans[i].class = "shaft__full"})

BarsLen(spans, bars) == Len(spans[bars].text)

\* lines 186-195
frequency(s) ==
    IF \/ ~s.main.article
       \/ ~s.main.freq_link
       \/ ~s.main.freq_dd
       \/ ~s.main.freq_div
    THEN Returns(s, Absent)                      \* AttributeError, caught
    ELSE LET bars == FirstFull(s.main.freq_spans, 1) IN
         IF bars = 0 THEN Returns(s, Absent)     \* AttributeError, caught
         ELSE Returns(s, Value(BarsLen(s.main.freq_spans, bars)))

\* lines 139-151: the index of the div, 0 for None, -1 for AttributeError
RECURSIVE SectionMainScan(_, _, _)
SectionMainScan(divs, name, i) ==
    IF i > Len(divs) THEN 0
    ELSE IF divs[i].label = None THEN -1
    ELSE IF Contains(name, divs[i].label) THEN i
    ELSE SectionMainScan(divs, name, i + 1)

_section_main_get_node(s, name) ==
    IF ~s.main.entry THEN -1
    ELSE SectionMainScan(s.main.entry_divs, name, 1)

\* lines 202-206
usage(s) ==
    LET pos_div == _section_main_get_node(s, "Gebrauch:") IN
    IF pos_div <= 0 THEN Returns(s, Absent)
    ELSE IF s.main.entry_divs[pos_div].strong = None
    THEN Returns(s, Absent)
    ELSE Returns(s, Value(s.main.entry_divs[pos_div].strong))

\* str.split('|') over the texts of the model
Split(text) ==
    CASE text = "Hun|de" -> <<"Hun", "de">>
      [] text = "Bar|ke" -> <<"Bar", "ke">>
      [] OTHER -> <<text>>

\* str.strip over the texts of the model
Strip(text) ==
    CASE text = " Bar|ke " -> "Bar|ke"
      [] text = " " -> ""
      [] OTHER -> text

\* lines 237-250
word_separation(s) ==
    LET div == _find_section(s, "Rechtschreibung", FALSE) IN
    IF div /= 0 /\ s.nodes[div].dd /= None
    THEN Returns(s, Value(Split(s.nodes[div].dd)))
    ELSE IF ~s.main.article \/ ~s.main.dt \/ s.main.dt_next = None
    THEN Returns(s, Absent)
    ELSE Returns(s, Value(Split(Strip(s.main.dt_next))))

\* copy.copy of a bs4 Tag: a new tree, unconnected to the document.  The
\* tree a method works on is [tree, shared]: shared when it is the
\* document's own node, so that what is extracted from it leaves the
\* document.
CopyIsAlias(node) == [tree |-> node, shared |-> TRUE]

copy_copy(node) == [tree |-> node, shared |-> FALSE]

\* the document once the method is done with the tree it worked on
After(s, i, work) ==
    IF work.shared THEN [s EXCEPT !.nodes[i] = work.tree] ELSE s

\* node.header.extract()
ExtractHeader(work) ==
    IF work.tree.header THEN [work EXCEPT !.tree.header = FALSE] ELSE work

\* node.section.extract()
ExtractSection(work) ==
    [work EXCEPT !.tree.has_section = FALSE, !.tree.h3 = None]

\* lines 277-278
RECURSIVE ExtractFigures(_)
ExtractFigures(work) ==
    IF work.tree.figures = <<>> THEN work
    ELSE ExtractFigures([work EXCEPT !.tree.figures = Tail(@)])

\* common.recursively_extract with maxdepth 2 and the trimmed text as
\* exfun: the structure of what the node still holds
recursively_extract(node) ==
    [header |-> node.header,
     section |-> IF node.has_section THEN <<node.h3>> ELSE <<>>,
     figures |-> Len(node.figures),
     text |-> clear_text(node.text)]

\* lines 257-281
meaning_overview(s) ==
    LET section == _find_section(s, "Bedeutungen", FALSE) IN
    IF section = 0 THEN Returns(s, Absent)
    ELSE
    LET node == copy_copy(s.nodes[section])
        node1 == ExtractHeader(node)
    IN
    IF node1.tree.has_section /\ node1.tree.h3 = None
    THEN Returns(After(s, section, node1), Raised("AttributeError"))
    ELSE
    LET node2 == IF /\ node1.tree.has_section
                    /\ node1.tree.h3 \in {"Beispiel", "Beispiele"}
                 THEN ExtractSection(node1) ELSE node1
        node3 == ExtractFigures(node2)
    IN Returns(After(s, section, node3),
               Value(recursively_extract(node3.tree)))

\* lines 288-296
synonyms(s) ==
    LET i == _find_section(s, "Synonyme", FALSE) IN
    IF i = 0 THEN Returns(s, Absent)             \* AttributeError, caught
    ELSE LET section == ExtractHeader(copy_copy(s.nodes[i])) IN
         Returns(After(s, i, section),
                 Value(recursively_extract(section.tree)))

\* Tag.text: the texts below the node, in document order
TextOf(node) ==
    (IF node.header THEN <<"header">> ELSE <<>>) \o <<node.text>>

\* lines 303-310
origin(s) ==
    LET i == _find_section(s, "Herkunft", FALSE) IN
    IF i = 0 THEN Returns(s, Absent)
    ELSE LET section == ExtractHeader(copy_copy(s.nodes[i])) IN
         Returns(After(s, i, section), Value(TextOf(section.tree)))

wordcloud_parts_of_speech == <<"adj", "verb", "noun">>

\* line 323: the texts of the anchors of a figure with data-group pos
WordCloud(figure, pos) ==
    LET Sel(a) == a.group = pos IN
    [k \in 1..Len(SelectSeq(figure, Sel)) |-> SelectSeq(figure, Sel)[k].text]

\* lines 317-327
connections(s) ==
    LET section == _find_section(s, "kontext", FALSE) IN
    IF section = 0 THEN Returns(s, Absent)
    ELSE IF s.nodes[section].figures = <<>>
    THEN Returns(s, Raised("AttributeError"))    \* line 323
    ELSE LET figure == s.nodes[section].figures[1] IN
         Returns(s, Value(
             [pos \in {p \in Range(wordcloud_parts_of_speech) :
                          WordCloud(figure, p) /= <<>>}
                 |-> WordCloud(figure, pos)]))

\* lines 363-367: the tables from the i-th on
RECURSIVE ExtendFrom(_, _)
ExtendFrom(table_nodes, i) ==
    IF i > Len(table_nodes) THEN Value(<<>>)
    ELSE LET cells == _table_node_to_tagged_cells(table_nodes[i]) IN
         IF cells.status = "raised" THEN cells
         ELSE LET rest == ExtendFrom(table_nodes, i + 1) IN
              IF rest.status = "raised" THEN rest
              ELSE Value(cells.val.tagged_strings \o rest.val)

\* lines 352-367
grammar_raw(s) ==
    LET section == _find_section(s, "Grammatik", FALSE) IN
    IF section = 0 THEN Returns(s, Absent)
    ELSE LET table_nodes == s.nodes[section].tables IN
         IF table_nodes = <<>> THEN Returns(s, Absent)    \* line 357
         ELSE Returns(s, ExtendFrom(table_nodes, 1))

\* line 342
IsSubsetReversed(target_tags, tags) == tags \subseteq target_tags

IsSubset(target_tags, tags) == target_tags \subseteq tags

\* lines 340-342
RECURSIVE Select(_, _)
Select(tagged_strings, target_tags) ==
    IF tagged_strings = <<>> THEN <<>>
    ELSE (IF IsSubset(target_tags, Head(tagged_strings).tags)
          THEN <<Head(tagged_strings).string>> ELSE <<>>)
         \o Select(Tail(tagged_strings), target_tags)

\* lines 338-342
grammar(s, target_tags) ==
    LET tagged_strings == grammar_raw(s).result IN
    IF tagged_strings.status = "raised" THEN Returns(s, tagged_strings)
    ELSE IF tagged_strings.status = "None"
    THEN Returns(s, Raised("TypeError"))         \* line 341: None is no list
    ELSE Returns(s, Value(Select(tagged_strings.val, target_tags)))

(***************************************************************************)
(* The tables of the model                                                 *)
(***************************************************************************)
SeqsUpTo(S, n) == UNION {[1..m -> S] : m \in 0..n}

\* the text of the td in row i, column k
Forms == <<
    <<"der Hund", "die Hunde", "Hunde", "x14">>,
    <<"des Hundes", "der Hunde", "Hundes", "x24">>,
    <<"dem Hund", "den Hunden", "Hunden", "x34">>,
    <<"den Hund", "die Hunde!", "Hund", "x44">>,
    <<"x51", "x52", "x53", "x54">>,
    <<"x61", "x62", "x63", "x64">> >>

TopTexts == {"", "Sin-gular", "Plural"}
LeftTexts == {None, " ", "Nominativ", " Genitiv "}
Captions == {None, "Deklination"}

NoTable == [has_thead |-> FALSE, thead |-> <<>>, has_tbody |-> FALSE,
            rows |-> <<>>, has_wrap |-> FALSE, h3 |-> None]

RowsOf(ths, lens) ==
    [i \in 1..Len(ths) |->
        [th |-> ths[i], tds |-> [k \in 1..lens[i] |-> Forms[i][k]]]]

\* up to maxRows rows: the first of n1 td, every other of n2
RowSeqs(maxRows, maxCols, lefts) ==
    UNION {{RowsOf(ths, [i \in 1..m |-> IF i = 1 THEN n1 ELSE n2]) :
               ths \in [1..m -> lefts],
               n1 \in 0..maxCols, n2 \in 0..maxCols}
           : m \in 0..maxRows}

Wraps == {[has_wrap |-> FALSE, h3 |-> None]}
         \cup {[has_wrap |-> TRUE, h3 |-> c] : c \in Captions}

\* a thead, or none, of up to maxCols + 1 th; a tbody, or none
Heads(maxCols) ==
    {[has |-> FALSE, th |-> <<>>]}
    \cup {[has |-> TRUE, th |-> s] : s \in SeqsUpTo(TopTexts, maxCols + 1)}

Bodies(maxRows, maxCols) ==
    {[has |-> FALSE, rows |-> <<>>]}
    \cup {[has |-> TRUE, rows |-> r] :
             r \in RowSeqs(maxRows, maxCols, LeftTexts)}

TableOf(hd, bd, w) ==
    [has_thead |-> hd.has, thead |-> hd.th, has_tbody |-> bd.has,
     rows |-> bd.rows, has_wrap |-> w.has_wrap, h3 |-> w.h3]

\* soup.main.article: article whether it is there; wortart_link and freq_link
\* whether the help anchors are there; wortart_dd the text of the dd after
\* the first anchor's parent, or None; freq_dd and freq_div whether the dd
\* after the second anchor's parent and its first div are there; freq_spans
\* the spans below that div, each [class, text] with the text a sequence of
\* characters; entry whether section#block-system-main and its div.entry
\* are there; entry_divs the div below it, each [label, strong], the texts
\* of its span.label and its strong, or None; dt whether a dt with the text
\* Worttrennung is there, dt_next the text of its next sibling, or None.
NoMain == [article |-> FALSE, wortart_link |-> FALSE, wortart_dd |-> None,
           freq_link |-> FALSE, freq_dd |-> FALSE, freq_div |-> FALSE,
           freq_spans |-> <<>>, entry |-> FALSE, entry_divs |-> <<>>,
           dt |-> FALSE, dt_next |-> None]

NoSoup == [main |-> NoMain, nodes |-> <<>>]

(***************************************************************************)
(* The table parser on every table of the model                            *)
(***************************************************************************)
InitTable ==
    /\ soup = NoSoup
    /\ input = soup
    /\ \E hd \in Heads(MaxCols), bd \in Bodies(MaxRows, MaxCols), w \in Wraps :
          table_node = TableOf(hd, bd, w)
    /\ op = "init"
    /\ args = <<>>
    /\ result = NotCalled

ParseTable ==
    /\ op = "init"
    /\ op' = "_table_node_to_tagged_cells"
    /\ result' = _table_node_to_tagged_cells(table_node)
    /\ UNCHANGED <<soup, input, table_node, args>>

NextTable == ParseTable

SpecTable == InitTable /\ [][NextTable]_vars

(***************************************************************************)
(* The table parser on tables that tense names reach                       *)
(***************************************************************************)
TenseTops == {<<>>, <<"", "Singular">>, <<PRASENS, "Singular">>,
              <<PRATERITUM, "Singular", "Plural">>, <<"Perfekt", "Singular">>}
TenseLefts == {None, "ich"}
TenseWraps == {[has_wrap |-> FALSE, h3 |-> None]}
              \cup {[has_wrap |-> TRUE, h3 |-> c] :
                       c \in {None, PRASENS, " Präsens ", "Indikativ"}}

TenseTables(maxRows, maxCols) ==
    {[has_thead |-> top /= <<>>, thead |-> top, has_tbody |-> TRUE,
      rows |-> r, has_wrap |-> w.has_wrap, h3 |-> w.h3] :
        top \in TenseTops, r \in RowSeqs(maxRows, maxCols, TenseLefts),
        w \in TenseWraps}

InitPerson ==
    /\ soup = NoSoup
    /\ input = soup
    /\ table_node \in TenseTables(MaxTenseRows, MaxCols)
    /\ op = "init"
    /\ args = <<>>
    /\ result = NotCalled

SpecPerson == InitPerson /\ [][NextTable]_vars

(***************************************************************************)
(* Properties of the table parser                                          *)
(***************************************************************************)
Parsed == op = "_table_node_to_tagged_cells" /\ result.status = "value"

\* the emitted cells that come from the td in row i, column k
CellsAt(i, k) ==
    {c \in Range(result.val.tagged_strings) : c.string = Forms[i][k]}

HasTopHeader(t) == t.has_thead /\ t.thead /= <<>>
HasLabeledRow(t) == \E i \in 1..Len(t.rows) : t.rows[i].th /= None

\* C2: a table is named if and only if it has a top header and a body row
\* with a th cell; a named table has the wrapper's caption, else the first
\* top-header element, as its name and the k-th data cell of each row is
\* tagged with the (k+1)-th top-header element; in a table that is not
\* named the k-th data cell is tagged with the k-th top-header element.
C2_NamedIffTopAndLabeledRow ==
    Parsed =>
        LET t == table_node
            top == TopHeaderOf(t)
            named == HasTopHeader(t) /\ HasLabeledRow(t)
        IN
        /\ result.val.named <=> named
        /\ named => result.val.table_name
                        = (IF t.h3 /= None THEN t.h3 ELSE top[1])
        /\ \A i \in 1..Len(t.rows) : \A k \in 1..Len(t.rows[i].tds) :
              \A c \in CellsAt(i, k) :
                 LET col == IF named THEN k + 1 ELSE k IN
                 col <= Len(top) => top[col] \in c.tags

\* the label the claims give row i: its own, else that of the nearest
\* labeled row before it, else None
IsLabel(x) == x /= None /\ x /= ""

RECURSIVE NearestLabel(_, _)
NearestLabel(left, i) ==
    IF i = 0 THEN None
    ELSE IF IsLabel(left[i]) THEN left[i]
    ELSE NearestLabel(left, i - 1)

OptTag(x) == IF IsLabel(x) THEN {x} ELSE {}

\* C3: every emitted cell carries exactly its table name, its row's
\* (carried-forward) label, its column's label and its person tag; what is
\* missing contributes no tag.
C3_TagsAreExactlyTheUnion ==
    Parsed =>
        LET t == table_node
            r == result.val
            left == LeftHeaderOf(t)
        IN
        \A i \in 1..Len(t.rows) : \A k \in 1..Len(t.rows[i].tds) :
            \A c \in CellsAt(i, k) :
                c.tags = OptTag(r.table_name)
                         \cup OptTag(NearestLabel(left, i))
                         \cup (IF r.top_header /= <<>>
                               THEN {r.top_header[k]} ELSE {})
                         \cup Cycle(PersonTags(r.table_name), i)

\* C9: after the scan a row with its own label keeps it, a row without one
\* carries the label of the nearest labeled row before it, and a row before
\* the first labeled row keeps a missing left header and contributes no row
\* tag.
C9_CarryForward ==
    Parsed =>
        LET t == table_node
            r == result.val
            left == LeftHeaderOf(t)
        IN
        \A i \in 1..Len(left) :
            IF IsLabel(NearestLabel(left, i))
            THEN /\ r.left_header[i] = NearestLabel(left, i)
                 /\ r.left_tags[i] = {NearestLabel(left, i)}
            ELSE /\ ~IsLabel(r.left_header[i])
                 /\ r.left_tags[i] = {}

\* the carry-forward alone, as the scan of lines 417-422 leaves it
C9_ScanCarriesLabels ==
    Parsed =>
        LET left == LeftHeaderOf(table_node) IN
        \A i \in 1..Len(left) :
            result.val.left_header[i]
                = (IF IsLabel(NearestLabel(left, i))
                   THEN NearestLabel(left, i) ELSE "")

Injective(s) == \A i, j \in 1..Len(s) : s[i] = s[j] => i = j

\* the column labels that are left differ from each other, and none of
\* them is a row label or the table name
ColumnLabelsApart(r) ==
    /\ r.top_header /= <<>>
    /\ Injective(r.top_header)
    /\ Range(r.top_header)
           \cap (Range(r.left_header) \cup {r.table_name}) = {}

PersonSet == {PERSON_1, PERSON_2, PERSON_3}

PersonOf(i) == <<PERSON_1, PERSON_2, PERSON_3>>[(i % 3) + 1]

\* C10: in a table named Präsens or Präteritum the cells of the i-th body
\* row, i from 0, carry exactly the one person tag of i mod 3; in any other
\* table no cell carries a person tag.
C10_PersonTags ==
    Parsed =>
        LET t == table_node
            tense == result.val.table_name \in {"Präsens", "Präteritum"}
        IN
        \A i \in 1..Len(t.rows) : \A k \in 1..Len(t.rows[i].tds) :
            \A c \in CellsAt(i, k) :
                c.tags \cap PersonSet
                    = (IF tense THEN {PersonOf(i - 1)} ELSE {})

\* a cell of the fourth row of a tense table, where the cycle has restarted
C10_Witness ==
    /\ Parsed
    /\ result.val.table_name = PRATERITUM
    /\ CellsAt(4, 1) /= {}
    /\ CellsAt(2, 1) /= {}

(***************************************************************************)
(* The section locator on every document of up to MaxNodes nodes           *)
(***************************************************************************)
SectionNodes ==
    {[EmptyNode EXCEPT !.tag = tg, !.id = id, !.depth = d, !.h2 = h] :
        tg \in {"div", "section"}, id \in {None, "grammatik"},
        d \in {0, 1}, h \in {None, "Grammatik", "Grammatik und Flexion"}}

SectionNames == {"Grammatik", "Flexion"}

InitSection ==
    /\ soup \in {[main |-> NoMain, nodes |-> ns] :
                    ns \in SeqsUpTo(SectionNodes, MaxNodes)}
    /\ input = soup
    /\ table_node = NoTable
    /\ op = "init"
    /\ args = <<>>
    /\ result = NotCalled

FindSection ==
    /\ op = "init"
    /\ \E name \in SectionNames, approximate \in BOOLEAN :
          /\ op' = "_find_section"
          /\ args' = <<name, approximate>>
          /\ result' = LET i == _find_section(soup, name, approximate) IN
                        IF i = 0 THEN Absent ELSE Value(i)
    /\ UNCHANGED <<soup, input, table_node>>

NextSection == FindSection

SpecSection == InitSection /\ [][NextSection]_vars

Found == op = "_find_section"

FirstOf(S) == IF S = {} THEN 0 ELSE CHOOSE i \in S : \A j \in S : i <= j

ResultIndex == IF result.status = "value" THEN result.val ELSE 0

\* C6: _find_section returns the node whose id is the lower-cased name when
\* there is one; otherwise the first top-level section whose heading equals
\* name or, only when approximate, contains it; otherwise None.
C6_IdThenTopLevelHeading ==
    Found =>
        LET ns == soup.nodes
            name == args[1]
            approximate == args[2]
            byId == {i \in 1..Len(ns) : ns[i].id = Lower(name)}
            byHeading ==
                {i \in 1..Len(ns) :
                    /\ ns[i].tag = "section"
                    /\ ns[i].depth = 0
                    /\ H2Of(ns, i) /= None
                    /\ \/ H2Of(ns, i) = name
                       \/ approximate /\ Contains(name, H2Of(ns, i))}
        IN ResultIndex = (IF byId /= {} THEN FirstOf(byId)
                          ELSE FirstOf(byHeading))

\* C6 as amended: the first div whose id is the lower-cased name when there
\* is one; otherwise the first section element, at any depth, whose first
\* h2 has the text name or, only when approximate, a text that contains
\* name; otherwise None.
C6_DivIdThenAnySectionHeading ==
    Found =>
        LET ns == soup.nodes
            name == args[1]
            approximate == args[2]
            byId == {i \in 1..Len(ns) :
                        ns[i].tag = "div" /\ ns[i].id = Lower(name)}
            byHeading ==
                {i \in 1..Len(ns) :
                    /\ ns[i].tag = "section"
                    /\ H2Of(ns, i) /= None
                    /\ \/ H2Of(ns, i) = name
                       \/ approximate /\ Contains(name, H2Of(ns, i))}
        IN ResultIndex = (IF byId /= {} THEN FirstOf(byId)
                          ELSE FirstOf(byHeading))

\* an exact call that passes over a section whose heading only contains the
\* name and returns a later one whose heading equals it
C6_Witness ==
    /\ Found
    /\ args = <<"Grammatik", FALSE>>
    /\ result.status = "value"
    /\ result.val = 3
    /\ soup.nodes[1].tag = "section"
    /\ soup.nodes[1].h2 = "Grammatik und Flexion"
    /\ soup.nodes[2].tag = "section"
    /\ soup.nodes[2].id = "grammatik"

(***************************************************************************)
(* frequency on every shape of the frequency entry                         *)
(***************************************************************************)
Spans == {[class |-> c, text |-> [k \in 1..n |-> "|"]] :
             c \in {"shaft__full", "shaft__empty"}, n \in 0..MaxBars}

FreqMains ==
    {NoMain,
     [NoMain EXCEPT !.article = TRUE],
     [NoMain EXCEPT !.article = TRUE, !.freq_link = TRUE],
     [NoMain EXCEPT !.article = TRUE, !.freq_link = TRUE, !.freq_dd = TRUE]}
    \cup {[NoMain EXCEPT !.article = TRUE, !.freq_link = TRUE,
                         !.freq_dd = TRUE, !.freq_div = TRUE,
                         !.freq_spans = sp] : sp \in SeqsUpTo(Spans, MaxSpans)}

InitFreq ==
    /\ soup \in {[main |-> m, nodes |-> <<>>] : m \in FreqMains}
    /\ input = soup
    /\ table_node = NoTable
    /\ op = "init"
    /\ args = <<>>
    /\ result = NotCalled

Frequency ==
    /\ op' = "frequency"
    /\ args' = <<>>
    /\ soup' = frequency(soup).soup
    /\ result' = frequency(soup).result
    /\ UNCHANGED <<input, table_node>>

NextFreq == Frequency

SpecFreq == InitFreq /\ [][NextFreq]_vars

FullSpans(spans) == {i \in 1..Len(spans) : spans[i].class = "shaft__full"}

\* C7: with the frequency anchor and the definition node after it,
\* frequency is the number of full-bar nodes of the definition node, 0
\* without any, an integer of 0..5; it is None only without the anchor or
\* the definition node.
C7_FrequencyCountsFullBarNodes ==
    op = "frequency" =>
        LET m == soup.main
            indicator == m.article /\ m.freq_link /\ m.freq_dd
        IN
        /\ indicator =>
              /\ result.status = "value"
              /\ result.val = Cardinality(FullSpans(m.freq_spans))
              /\ result.val \in 0..5
        /\ result.status = "None" => ~indicator

\* C7 as amended: with the anchor, the definition node after it, the div
\* of that node and a span of class shaft__full below the div, frequency is
\* the number of characters of the text of the first such span; in every
\* other case it is None.
C7_FrequencyIsLengthOfFirstFullBar ==
    op = "frequency" =>
        LET m == soup.main
            full == FullSpans(m.freq_spans)
        IN
        IF m.article /\ m.freq_link /\ m.freq_dd /\ m.freq_div /\ full /= {}
        THEN /\ result.status = "value"
             /\ \E i \in full :
                   /\ \A j \in full : i <= j
                   /\ result.val = Len(m.freq_spans[i].text)
        ELSE result = Absent

\* two full-bar spans, the first of three characters
C7_Witness ==
    /\ op = "frequency"
    /\ Len(soup.main.freq_spans) = 2
    /\ FullSpans(soup.main.freq_spans) = {1, 2}
    /\ result = Value(3)

(***************************************************************************)
(* grammar_raw and grammar on documents with up to MaxTables tables        *)
(***************************************************************************)
GrammarRow(i, kind) ==
    CASE kind = "plain" -> [th |-> None, tds |-> <<Forms[i][1], Forms[i][2]>>]
      [] kind = "labeled" ->
             [th |-> "Nominativ", tds |-> <<Forms[i][1], Forms[i][2]>>]
      [] kind = "bare" -> [th |-> "Nominativ", tds |-> <<>>]
      [] kind = "long" ->
             [th |-> None,
              tds |-> <<Forms[i][1], Forms[i][2], Forms[i][3]>>]

GrammarRows ==
    {<<>>,
     <<GrammarRow(1, "plain")>>,
     <<GrammarRow(1, "bare")>>,
     <<GrammarRow(1, "labeled"), GrammarRow(2, "plain")>>,
     <<GrammarRow(1, "labeled"), GrammarRow(1, "labeled")>>,
     <<GrammarRow(1, "plain"), GrammarRow(2, "long")>>}

GrammarTops == {<<>>, <<"", "Singular", "Plural">>,
                <<"Kasus", "singular", "Plural">>}

GrammarTables ==
    {[has_thead |-> top /= <<>>, thead |-> top, has_tbody |-> TRUE,
      rows |-> r, has_wrap |-> TRUE, h3 |-> None] :
        top \in GrammarTops, r \in GrammarRows}

GrammarNodes ==
    {[EmptyNode EXCEPT !.id = "grammatik", !.tables = ts] :
        ts \in SeqsUpTo(GrammarTables, MaxTables)}
    \cup {[EmptyNode EXCEPT !.tag = "section", !.h2 = "Grammatik",
                            !.tables = ts] :
             ts \in SeqsUpTo(GrammarTables, MaxTables)}

TargetTags == {"Singular", "singular", "Nominativ"}

TargetSets == {T \in SUBSET TargetTags : Cardinality(T) <= 2}

InitGrammar ==
    /\ soup \in {NoSoup} \cup {[main |-> NoMain, nodes |-> <<n>>] :
                                  n \in GrammarNodes}
    /\ input = soup
    /\ table_node = NoTable
    /\ op = "init"
    /\ args = <<>>
    /\ result = NotCalled

GrammarRaw ==
    /\ op' = "grammar_raw"
    /\ args' = <<>>
    /\ soup' = grammar_raw(soup).soup
    /\ result' = grammar_raw(soup).result
    /\ UNCHANGED <<input, table_node>>

Grammar ==
    \E target_tags \in TargetSets :
        LET ret == grammar(soup, target_tags) IN
        /\ op' = "grammar"
        /\ args' = <<target_tags>>
        /\ soup' = ret.soup
        /\ result' = ret.result
        /\ UNCHANGED <<input, table_node>>

NextGrammar == GrammarRaw \/ Grammar

SpecGrammar == InitGrammar /\ [][NextGrammar]_vars

\* C1: where grammar_raw gives a list, grammar(*T) gives the strings of
\* exactly the cells whose tags include every tag of T, in the order of
\* grammar_raw and with duplicates kept; with T empty, the string of every
\* cell.
C1_GrammarSelectsSupersets ==
    (op = "grammar" /\ grammar_raw(soup).result.status = "value") =>
        LET raw == grammar_raw(soup).result.val
            T == args[1]
            I == {i \in 1..Len(raw) : \A tag \in T : tag \in raw[i].tags}
        IN
        /\ result.status = "value"
        /\ Len(result.val) = Cardinality(I)
        /\ \A i \in I :
              result.val[Cardinality({j \in I : j <= i})] = raw[i].string
        /\ T = {} => result.val = [i \in 1..Len(raw) |-> raw[i].string]

\* a query for Singular that keeps a string twice and passes over a cell
\* tagged singular
C1_Witness ==
    /\ op = "grammar"
    /\ args = <<{"Singular"}>>
    /\ result.status = "value"
    /\ \E i, j \in 1..Len(result.val) : i < j /\ result.val[i] = result.val[j]
    /\ \E c \in Range(grammar_raw(soup).result.val) :
          "singular" \in c.tags /\ "Singular" \notin c.tags

\* C5: grammar_raw is None without a grammar section and without a table in
\* it, and a list it returns is never empty.
C5_GrammarRawNeverEmpty ==
    op = "grammar_raw" =>
        /\ (soup.nodes = <<>> \/ soup.nodes[1].tables = <<>>)
              => result = Absent
        /\ result.status = "value" => result.val /= <<>>

\* the texts of the td cells of a table, row after row and left to right
RECURSIVE DataCellsFrom(_, _)
DataCellsFrom(t, i) ==
    IF i > Len(t.rows) THEN <<>>
    ELSE [k \in 1..Len(t.rows[i].tds) |-> clear_text(t.rows[i].tds[k])]
         \o DataCellsFrom(t, i + 1)

\* those of the tables from the i-th on, in document order
RECURSIVE AllDataCellsFrom(_, _)
AllDataCellsFrom(table_nodes, i) ==
    IF i > Len(table_nodes) THEN <<>>
    ELSE DataCellsFrom(table_nodes[i], 1)
         \o AllDataCellsFrom(table_nodes, i + 1)

\* C11: the values of a list that grammar_raw returns are the texts of all
\* the td cells of the tables of the grammar section, table after table in
\* document order and within a table row after row and left to right: each
\* td gives exactly one cell, whatever the lengths of the rows and of the
\* top header.
C11_EveryDataCellOnceInOrder ==
    (op = "grammar_raw" /\ result.status = "value") =>
        LET table_nodes ==
                soup.nodes[_find_section(soup, "Grammatik", FALSE)].tables
        IN
        [i \in 1..Len(result.val) |-> result.val[i].string]
            = AllDataCellsFrom(table_nodes, 1)

(***************************************************************************)
(* The field extractors, in any order, on documents that hold or lack each *)
(* section                                                                 *)
(***************************************************************************)
Figures == {[k \in 1..n |-> <<>>] : n \in 0..MaxFigures}

Opt(S) == {<<>>} \cup {<<n>> : n \in S}

MeaningNodes ==
    {[EmptyNode EXCEPT !.tag = "section", !.h2 = "Bedeutungen",
                       !.header = hd, !.has_section = sub.has, !.h3 = sub.h3,
                       !.figures = fg, !.text = "ein Tier"] :
        hd \in BOOLEAN,
        sub \in {[has |-> FALSE, h3 |-> None], [has |-> TRUE, h3 |-> None],
                 [has |-> TRUE, h3 |-> "Beispiel"],
                 [has |-> TRUE, h3 |-> "Beispiele"],
                 [has |-> TRUE, h3 |-> "Wendungen"]},
        fg \in Figures}

SynonymNodes ==
    {[EmptyNode EXCEPT !.id = "synonyme", !.header = hd, !.text = "Köter"] :
        hd \in BOOLEAN}

OriginNodes ==
    {[EmptyNode EXCEPT !.id = "herkunft", !.header = hd,
                       !.text = "althochdeutsch hunt"] : hd \in BOOLEAN}

ContextNodes ==
    {[EmptyNode EXCEPT !.id = "kontext", !.figures = fg] :
        fg \in {<<>>, << <<[group |-> "adj", text |-> "treu"],
                        [group |-> "noun", text |-> "Katze"],
                        [group |-> "adj", text |-> "bissig"]>> >>}}

GoodTable == [has_thead |-> TRUE, thead |-> <<"", "Singular", "Plural">>,
              has_tbody |-> TRUE,
              rows |-> <<[th |-> "Nominativ",
                          tds |-> <<"der Hund", "die Hunde">>]>>,
              has_wrap |-> TRUE, h3 |-> None]

GrammarSectionNodes ==
    {[EmptyNode EXCEPT !.id = "grammatik", !.tables = ts] :
        ts \in {<<>>, <<GoodTable>>,
                <<[GoodTable EXCEPT !.has_tbody = FALSE, !.rows = <<>>]>>,
                <<[GoodTable EXCEPT !.has_wrap = FALSE]>>}}

SpellingNodes ==
    {[EmptyNode EXCEPT !.id = "rechtschreibung", !.dd = dd] :
        dd \in {None, "Hun|de"}}

ExtractMains ==
    {NoMain,
     [article |-> TRUE, wortart_link |-> TRUE, wortart_dd |-> "Substantiv",
      freq_link |-> TRUE, freq_dd |-> TRUE, freq_div |-> TRUE,
      freq_spans |-> <<[class |-> "shaft__full", text |-> <<"|", "|">>],
                       [class |-> "shaft__empty", text |-> <<"|">>]>>,
      entry |-> TRUE,
      entry_divs |-> <<[label |-> "Wortart: ", strong |-> "Substantiv"],
                       [label |-> "Gebrauch: ", strong |-> "salopp"]>>,
      dt |-> TRUE, dt_next |-> " Bar|ke "],
     [article |-> TRUE, wortart_link |-> TRUE, wortart_dd |-> None,
      freq_link |-> TRUE, freq_dd |-> TRUE, freq_div |-> FALSE,
      freq_spans |-> <<>>, entry |-> TRUE,
      entry_divs |-> <<[label |-> None, strong |-> None]>>,
      dt |-> TRUE, dt_next |-> None]}

InitExtract ==
    /\ soup \in {[main |-> m,
                   nodes |-> sp \o me \o sy \o og \o cx \o gr] :
                    m \in ExtractMains, sp \in Opt(SpellingNodes),
                    me \in Opt(MeaningNodes), sy \in Opt(SynonymNodes),
                    og \in Opt(OriginNodes), cx \in Opt(ContextNodes),
                    gr \in Opt(GrammarSectionNodes)}
    /\ input = soup
    /\ table_node = NoTable
    /\ op = "init"
    /\ args = <<>>
    /\ result = NotCalled

PartOfSpeech ==
    /\ op' = "part_of_speech"
    /\ args' = <<>>
    /\ soup' = part_of_speech(soup).soup
    /\ result' = part_of_speech(soup).result
    /\ UNCHANGED <<input, table_node>>

Usage ==
    /\ op' = "usage"
    /\ args' = <<>>
    /\ soup' = usage(soup).soup
    /\ result' = usage(soup).result
    /\ UNCHANGED <<input, table_node>>

WordSeparation ==
    /\ op' = "word_separation"
    /\ args' = <<>>
    /\ soup' = word_separation(soup).soup
    /\ result' = word_separation(soup).result
    /\ UNCHANGED <<input, table_node>>

MeaningOverview ==
    /\ op' = "meaning_overview"
    /\ args' = <<>>
    /\ soup' = meaning_overview(soup).soup
    /\ result' = meaning_overview(soup).result
    /\ UNCHANGED <<input, table_node>>

Synonyms ==
    /\ op' = "synonyms"
    /\ args' = <<>>
    /\ soup' = synonyms(soup).soup
    /\ result' = synonyms(soup).result
    /\ UNCHANGED <<input, table_node>>

Origin ==
    /\ op' = "origin"
    /\ args' = <<>>
    /\ soup' = origin(soup).soup
    /\ result' = origin(soup).result
    /\ UNCHANGED <<input, table_node>>

Connections ==
    /\ op' = "connections"
    /\ args' = <<>>
    /\ soup' = connections(soup).soup
    /\ result' = connections(soup).result
    /\ UNCHANGED <<input, table_node>>

NextExtract ==
    \/ PartOfSpeech
    \/ Frequency
    \/ Usage
    \/ WordSeparation
    \/ MeaningOverview
    \/ Synonyms
    \/ Origin
    \/ Connections
    \/ GrammarRaw

SpecExtract == InitExtract /\ [][NextExtract]_vars

\* C4: whatever nodes are missing, every optional-field extractor ends with
\* a value or None and never raises.
C4_ExtractorsNeverRaise ==
    result.status /= "raised"

\* what the extractor op returns on the document s
ResultOn(name, s) ==
    CASE name = "part_of_speech" -> part_of_speech(s).result
      [] name = "frequency" -> frequency(s).result
      [] name = "usage" -> usage(s).result
      [] name = "word_separation" -> word_separation(s).result
      [] name = "meaning_overview" -> meaning_overview(s).result
      [] name = "synonyms" -> synonyms(s).result
      [] name = "origin" -> origin(s).result
      [] name = "connections" -> connections(s).result
      [] name = "grammar_raw" -> grammar_raw(s).result
      [] OTHER -> NotCalled

\* C8: after any calls of the extractors, in any order, the document is the
\* document that was loaded, and the last call returned what it returns on
\* that document.
C8_DocumentUnchanged ==
    /\ soup = input
    /\ result = ResultOn(op, input)

\* meaning_overview has trimmed a heading, an examples section and figures,
\* in a document that also holds an origin section with a heading
C8_Witness ==
    /\ op = "meaning_overview"
    /\ result.status = "value"
    /\ ~result.val.header
    /\ result.val.section = <<>>
    /\ result.val.figures = 0
    /\ \E i \in 1..Len(input.nodes) :
          /\ input.nodes[i].h2 = "Bedeutungen"
          /\ input.nodes[i].header
          /\ input.nodes[i].h3 = "Beispiele"
          /\ Len(input.nodes[i].figures) = 2
    /\ \E i \in 1..Len(input.nodes) :
          input.nodes[i].id = "herkunft" /\ input.nodes[i].header

====
